---------------------------- MODULE Spec2Model ----------------------------
(***************************************************************************)
(* Model of the tool registry (tool_registry.py), the tool discovery       *)
(* (tool_discovery.py) and the memory preload (preload_memory_tool.py).    *)
(*                                                                         *)
(* A Python str that the code only stores and compares is a TLA+ string;   *)
(* where the code looks inside a str (lower, split, strip, join) it is the *)
(* sequence of its characters.                                             *)
(***************************************************************************)
EXTENDS Integers, Sequences, FiniteSets, TLC

VARIABLES
  tools,        \* ToolRegistry._tools: insertion-ordered dict, as a sequence of [name, cls]
  categories,   \* ToolRegistry._categories: insertion-ordered dict, as a sequence of [key, members]
  reg,          \* per thread: the position and the locals of its register_tool call
  nregs,        \* number of register_tool calls started
  lastWrite,    \* history: per name, the class most recently written to _tools[name],
                \* the class it replaced ("None" for a new key) and the number of
                \* that write among all writes
  writers,      \* the threads that call register_tool in this run
  overlap,      \* whether the reads of this run may fall inside a register_tool call
  sel,          \* the most recent get_tools_for_task call: its arguments, locals and return value
  mem,          \* the most recent process_llm_request call: its inputs and effects
  rd            \* the reading thread of a concurrent run: its position in the reads
                \* of get_tools_for_task and its most recent get_tool_class call

vars == <<tools, categories, reg, nregs, lastWrite, writers, overlap, sel, mem, rd>>

(***************************************************************************)
(* Bounds of the model.                                                    *)
(***************************************************************************)
MaxRegs == 2          \* register_tool calls per behaviour
MaxParts == 2         \* parts per content
MaxEvents == 2        \* events per memory

Threads == {1, 2}

(***************************************************************************)
(* Strings.                                                                *)
(***************************************************************************)
Uppers == <<"A","B","C","D","E","F","G","H","I","J","K","L","M",
            "N","O","P","Q","R","S","T","U","V","W","X","Y","Z">>
Lowers == <<"a","b","c","d","e","f","g","h","i","j","k","l","m",
            "n","o","p","q","r","s","t","u","v","w","x","y","z">>

\* str.lower() on one character
LowerChar(c) ==
  IF \E i \in 1..26 : Uppers[i] = c
  THEN Lowers[CHOOSE i \in 1..26 : Uppers[i] = c]
  ELSE c

\* str.lower()
Lower(s) == [i \in 1..Len(s) |-> LowerChar(s[i])]

\* the characters str.split() and str.strip() treat as whitespace
IsSpace(c) == c \in {" ", "\t", "\n", "\r"}

\* str.split(): split on runs of whitespace, no empty words
RECURSIVE SplitWsFrom(_, _, _)
SplitWsFrom(s, i, cur) ==
  IF i > Len(s)
  THEN IF cur = <<>> THEN <<>> ELSE <<cur>>
  ELSE IF IsSpace(s[i])
       THEN (IF cur = <<>> THEN <<>> ELSE <<cur>>) \o SplitWsFrom(s, i + 1, <<>>)
       ELSE SplitWsFrom(s, i + 1, Append(cur, s[i]))

SplitWs(s) == SplitWsFrom(s, 1, <<>>)

\* str.split(sep) for a one-character sep: every separator splits, empty words kept
RECURSIVE SplitOnFrom(_, _, _, _)
SplitOnFrom(s, sep, i, cur) ==
  IF i > Len(s)
  THEN <<cur>>
  ELSE IF s[i] = sep
       THEN <<cur>> \o SplitOnFrom(s, sep, i + 1, <<>>)
       ELSE SplitOnFrom(s, sep, i + 1, Append(cur, s[i]))

SplitOn(s, sep) == SplitOnFrom(s, sep, 1, <<>>)

\* set(list)
ToSet(seq) == {seq[i] : i \in 1..Len(seq)}

\* str.strip()
RECURSIVE LStrip(_)
LStrip(s) == IF s # <<>> /\ IsSpace(Head(s)) THEN LStrip(Tail(s)) ELSE s
RECURSIVE RStrip(_)
RStrip(s) ==
  IF s # <<>> /\ IsSpace(s[Len(s)]) THEN RStrip(SubSeq(s, 1, Len(s) - 1)) ELSE s
Strip(s) == RStrip(LStrip(s))

\* sep.join(list)
RECURSIVE Join(_, _)
Join(sep, list) ==
  IF list = <<>> THEN <<>>
  ELSE IF Len(list) = 1 THEN list[1]
  ELSE list[1] \o sep \o Join(sep, Tail(list))

\* all orders in which the elements of a finite set can be listed
RECURSIVE Perms(_)
Perms(S) ==
  IF S = {} THEN {<<>>}
  ELSE UNION {{<<x>> \o p : p \in Perms(S \ {x})} : x \in S}

(***************************************************************************)
(* The tool classes offered to the registry.  A class has a __name__, the  *)
(* parameters of its __init__ and, once constructed, a name and a          *)
(* description.  A class stands for itself by its __name__.                *)
(***************************************************************************)
ToolClasses ==
  {"FlightTool", "FlightToolV2", "ComplexTool", "AgentTool"}

\* tool_cls.__name__
ClassName(cls) == cls

\* inspect.signature(tool_cls.__init__).parameters without self:
\* annotation is "str", "int", "bool" or "other"; required = it has no default
InitParams(cls) ==
  CASE cls = "FlightTool"   -> <<[pname |-> "api_key", annotation |-> "str", required |-> TRUE],
                                 [pname |-> "units", annotation |-> "str", required |-> FALSE]>>
    [] cls = "FlightToolV2" -> <<[pname |-> "retries", annotation |-> "int", required |-> TRUE],
                                 [pname |-> "verbose", annotation |-> "bool", required |-> TRUE]>>
    [] cls = "ComplexTool"  -> <<[pname |-> "client", annotation |-> "other", required |-> TRUE]>>
    [] cls = "AgentTool"    -> <<[pname |-> "agent", annotation |-> "other", required |-> TRUE]>>

\* instance.name
DeclaredName(cls) ==
  CASE cls = "FlightTool"   -> "Flight_Status"
    [] cls = "FlightToolV2" -> "Flight_Status"
    [] cls = "ComplexTool"  -> "complex"
    [] cls = "AgentTool"    -> "dummy_agent"

\* instance.description
Description(cls) ==
  CASE cls = "FlightTool"   -> "looks up flight status"
    [] cls = "FlightToolV2" -> "find flight updates"
    [] cls = "ComplexTool"  -> "complex"
    [] cls = "AgentTool"    -> "dummy agent for tool discovery"

\* the characters of the strings that the code splits, strips or joins
Chars(s) ==
  CASE s = "Flight_Status" ->
         <<"F", "l", "i", "g", "h", "t", "_", "S", "t", "a", "t", "u", "s">>
    [] s = "complex" ->
         <<"c", "o", "m", "p", "l", "e", "x">>
    [] s = "dummy_agent" ->
         <<"d", "u", "m", "m", "y", "_", "a", "g", "e", "n", "t">>
    [] s = "looks up flight status" ->
         <<"l", "o", "o", "k", "s", " ", "u", "p", " ", "f", "l", "i", "g", "h", "t", " ", "s", "t", "a", "t", "u", "s">>
    [] s = "dummy agent for tool discovery" ->
         <<"d", "u", "m", "m", "y", " ", "a", "g", "e", "n", "t", " ", "f", "o", "r", " ", "t", "o", "o", "l", " ", "d", "i", "s", "c", "o", "v", "e", "r", "y">>
    [] s = "find flight updates" ->
         <<"f", "i", "n", "d", " ", "f", "l", "i", "g", "h", "t", " ", "u", "p", "d", "a", "t", "e", "s">>
    [] s = "Check  flight\tSTATUS Flight" ->
         <<"C", "h", "e", "c", "k", " ", " ", "f", "l", "i", "g", "h", "t", "\t", "S", "T", "A", "T", "U", "S", " ", "F", "l", "i", "g", "h", "t">>
    [] s = " \t " ->
         <<" ", "\t", " ">>
    [] s = "" ->
         <<>>
    [] s = "hi" ->
         <<"h", "i">>
    [] s = " " ->
         <<" ">>
    [] s = "image/png" ->
         <<"i", "m", "a", "g", "e", "/", "p", "n", "g">>
    [] s = "some_tool" ->
         <<"s", "o", "m", "e", "_", "t", "o", "o", "l">>
    [] s = "user" ->
         <<"u", "s", "e", "r">>
    [] s = "model" ->
         <<"m", "o", "d", "e", "l">>
    [] s = "Time: " ->
         <<"T", "i", "m", "e", ":", " ">>
    [] s = ": " ->
         <<":", " ">>
    [] s = "\n" ->
         <<"\n">>
    [] s = "[User shared " ->
         <<"[", "U", "s", "e", "r", " ", "s", "h", "a", "r", "e", "d", " ">>
    [] s = " content] " ->
         <<" ", "c", "o", "n", "t", "e", "n", "t", "]", " ">>
    [] s = "[" ->
         <<"[">>
    [] s = " content]" ->
         <<" ", "c", "o", "n", "t", "e", "n", "t", "]">>
    [] s = "[function call: " ->
         <<"[", "f", "u", "n", "c", "t", "i", "o", "n", " ", "c", "a", "l", "l", ":", " ">>
    [] s = "]" ->
         <<"]">>
    [] s = "1970-01-01T00:00:00" ->
         <<"1", "9", "7", "0", "-", "0", "1", "-", "0", "1", "T", "0", "0", ":", "0", "0", ":", "0", "0">>

\* What the body of tool_cls.__init__ can do once its arguments are bound:
\* TRUE = it returns, FALSE = it raises.  FlightToolV2's constructor depends
\* on its environment and can do either on any one call.
BodyOutcomes(cls) == IF cls = "FlightToolV2" THEN {TRUE, FALSE} ELSE {TRUE}

\* tool_cls(**kwargs): "ok" or "raise".  Binding fails (TypeError) when a
\* required parameter is missing or a keyword is not a parameter.
Construct(cls, kwargs, bodyOk) ==
  LET ps == InitParams(cls)
      names == {ps[i].pname : i \in 1..Len(ps)}
      required == {ps[i].pname : i \in {j \in 1..Len(ps) : ps[j].required}}
  IN IF required \subseteq kwargs /\ kwargs \subseteq names /\ bodyOk
     THEN "ok" ELSE "raise"

\* The keyword arguments synthesized for a probe construction: the names of
\* the required parameters annotated str, int or bool (they get
\* "dummy_<name>", 0 and False), plus "agent" for a class named AgentTool.
DummyArgs(cls) ==
  LET ps == InitParams(cls)
  IN {ps[i].pname : i \in {j \in 1..Len(ps) :
         ps[j].required /\ ps[j].annotation \in {"str", "int", "bool"}}}
     \cup (IF ClassName(cls) = "AgentTool"
           THEN {"agent"} ELSE {})

(***************************************************************************)
(* ToolRegistry                                                            *)
(***************************************************************************)
Range(seq) == {seq[i] : i \in 1..Len(seq)}

\* the keys of an insertion-ordered dict
ToolKeys(d) == {d[i].name : i \in 1..Len(d)}
CatKeys(d) == {d[i].key : i \in 1..Len(d)}

\* a registry that kept a list of entries instead of a dict
DictAppendTool(d, name, cls) == Append(d, [name |-> name, cls |-> cls])

\* _tools[name] = cls: a new key goes last, an existing key keeps its place
DictSetTool(d, name, cls) ==
  IF name \in ToolKeys(d)
  THEN [i \in 1..Len(d) |-> IF d[i].name = name THEN [name |-> name, cls |-> cls] ELSE d[i]]
  ELSE Append(d, [name |-> name, cls |-> cls])

\* _categories[key] = members
DictSetCat(d, key, members) ==
  IF key \in CatKeys(d)
  THEN [i \in 1..Len(d) |-> IF d[i].key = key THEN [key |-> key, members |-> members] ELSE d[i]]
  ELSE Append(d, [key |-> key, members |-> members])

\* _tools[name], for a key of _tools
ToolAt(d, name) == d[CHOOSE i \in 1..Len(d) : d[i].name = name].cls

\* _categories.get(key, set())
MembersOf(d, key) ==
  IF key \in CatKeys(d) THEN d[CHOOSE i \in 1..Len(d) : d[i].key = key].members ELSE {}

\* get_tool_class: the class, or "None"
get_tool_class(tool_name) ==
  IF tool_name \in ToolKeys(tools) THEN ToolAt(tools, tool_name) ELSE "None"

\* all_tools
all_tools == [i \in 1..Len(tools) |-> tools[i].cls]

\* all_categories
all_categories == [i \in 1..Len(categories) |-> categories[i].key]

\* a lookup that forgot the category
get_tools_of_any_category(category) ==
  {[i \in 1..Len(p) |-> ToolAt(tools, p[i])] : p \in Perms(ToolKeys(tools))}

\* get_tools_by_category: the set is iterated in an order that depends on the
\* hash seed and the set's history, so any order of its members can come out
get_tools_by_category(category) ==
  LET names == MembersOf(categories, category)
  IN {[i \in 1..Len(p) |-> ToolAt(tools, p[i])] :
        p \in Perms({n \in names : n \in ToolKeys(tools)})}

\* no get_tools_for_task call has returned since the registry last moved
NoSelect ==
  [called |-> FALSE, task |-> "", categories |-> <<>>, max_tools |-> 0,
   candidate_tools |-> <<>>, probe_failed |-> {}, scored_tools |-> <<>>,
   top_tool_classes |-> <<>>, picked |-> <<>>, tools |-> <<>>, raised |-> FALSE]

(***************************************************************************)
(* ToolRegistry.register_tool, one thread's call in the steps at which     *)
(* another thread can observe the registry.                                *)
(***************************************************************************)
\* the categories arguments tried: None or a list of labels
CategoryLists ==
  {<<>>, <<"info">>, <<"info", "travel">>}

NoCall == [pc |-> "idle", cls |-> "None", cats |-> <<>>, probe |-> "none",
           tool_name |-> "", i |-> 0]

\* a registration without the fallback of lines 90-92
ProbeNameNoFallback(cls, outcome) == DeclaredName(cls)

\* lines 86-92: the name of the probe instance, or the class name when the
\* construction raises
ProbeName(cls, outcome) ==
  IF outcome = "ok" THEN DeclaredName(cls) ELSE ClassName(cls)

\* lines 59-92: synthesize the arguments, construct the probe, resolve the name
RegisterProbe(th, cls, cats, bodyOk) ==
  /\ reg[th].pc \in {"idle", "returned"}
  /\ nregs < MaxRegs
  /\ nregs' = nregs + 1
  /\ LET outcome == Construct(cls, DummyArgs(cls), bodyOk)
     IN reg' = [reg EXCEPT ![th] =
                 [pc |-> "store", cls |-> cls, cats |-> cats, probe |-> outcome,
                  tool_name |-> ProbeName(cls, outcome), i |-> 0]]
  /\ sel' = NoSelect
  /\ UNCHANGED <<tools, categories, lastWrite, writers, overlap, mem, rd>>

\* a registration that fills the categories without writing _tools
RegisterStoreSkipped(th) ==
  /\ reg[th].pc = "store"
  /\ reg' = [reg EXCEPT ![th].pc = IF reg[th].cats = <<>> THEN "returned" ELSE "cat_check",
                        ![th].i = 1]
  /\ sel' = NoSelect
  /\ UNCHANGED <<tools, lastWrite, categories, nregs, writers, overlap, mem, rd>>

\* the number of writes of line 94 so far
Writes ==
  IF DOMAIN lastWrite = {} THEN 0
  ELSE CHOOSE k \in {lastWrite[n].at : n \in DOMAIN lastWrite} :
         \A n \in DOMAIN lastWrite : lastWrite[n].at <= k

\* a registration that takes the name out of the categories it was in
RegisterStorePruning(th) ==
  /\ reg[th].pc = "store"
  /\ tools' = DictSetTool(tools, reg[th].tool_name, reg[th].cls)
  /\ categories' = [k \in 1..Len(categories) |->
                      [key |-> categories[k].key,
                       members |-> categories[k].members \ {reg[th].tool_name}]]
  /\ lastWrite' = [n \in DOMAIN lastWrite \cup {reg[th].tool_name} |->
                     IF n = reg[th].tool_name
                     THEN [cls |-> reg[th].cls, replaced |-> get_tool_class(n),
                           at |-> Writes + 1]
                     ELSE lastWrite[n]]
  /\ reg' = [reg EXCEPT ![th].pc = IF reg[th].cats = <<>> THEN "returned" ELSE "cat_check",
                        ![th].i = 1]
  /\ sel' = NoSelect
  /\ UNCHANGED <<nregs, writers, overlap, mem, rd>>

\* line 94, and line 97: with no categories the call returns
RegisterStore(th) ==
  /\ reg[th].pc = "store"
  /\ tools' = DictSetTool(tools, reg[th].tool_name, reg[th].cls)
  /\ lastWrite' = [n \in DOMAIN lastWrite \cup {reg[th].tool_name} |->
                     IF n = reg[th].tool_name
                     THEN [cls |-> reg[th].cls, replaced |-> get_tool_class(n),
                           at |-> Writes + 1]
                     ELSE lastWrite[n]]
  /\ reg' = [reg EXCEPT ![th].pc = IF reg[th].cats = <<>> THEN "returned" ELSE "cat_check",
                        ![th].i = 1]
  /\ sel' = NoSelect
  /\ UNCHANGED <<categories, nregs, writers, overlap, mem, rd>>

\* line 99
RegisterCatCheck(th) ==
  /\ reg[th].pc = "cat_check"
  /\ reg' = [reg EXCEPT ![th].pc =
               IF reg[th].cats[reg[th].i] \notin CatKeys(categories)
               THEN "cat_create" ELSE "cat_add"]
  /\ sel' = NoSelect
  /\ UNCHANGED <<tools, categories, nregs, lastWrite, writers, overlap, mem, rd>>

\* no read in progress
NoRead ==
  [pc |-> "idle", cats |-> <<>>, k |-> 0, live |-> FALSE, grown |-> FALSE,
   names |-> {}, left |-> {}, out |-> <<>>, cands |-> <<>>,
   lookup |-> "", found |-> "None", written |-> "None", half |-> FALSE]

\* line 100 binds the label to a new set: an iterator over the set that was
\* bound to it keeps that set, which no thread can reach any more
Detach(r, category) ==
  IF r.pc = "iter" /\ r.live /\ r.cats[r.k] = category
  THEN [r EXCEPT !.live = FALSE,
                 !.grown = MembersOf(categories, category) # r.names]
  ELSE r

\* line 100
RegisterCatCreate(th) ==
  /\ reg[th].pc = "cat_create"
  /\ categories' = DictSetCat(categories, reg[th].cats[reg[th].i], {})
  /\ reg' = [reg EXCEPT ![th].pc = "cat_add"]
  /\ sel' = NoSelect
  /\ rd' = Detach(rd, reg[th].cats[reg[th].i])
  /\ UNCHANGED <<tools, nregs, lastWrite, writers, overlap, mem>>

\* line 101, then the next category or the return of line 103
RegisterCatAdd(th) ==
  /\ reg[th].pc = "cat_add"
  /\ LET c == reg[th].cats[reg[th].i]
     IN categories' = DictSetCat(categories, c,
                          MembersOf(categories, c) \cup {reg[th].tool_name})
  /\ reg' = [reg EXCEPT ![th].pc = IF reg[th].i = Len(reg[th].cats)
                                   THEN "returned" ELSE "cat_check",
                        ![th].i = reg[th].i + 1]
  /\ sel' = NoSelect
  /\ UNCHANGED <<tools, nregs, lastWrite, writers, overlap, mem, rd>>

(***************************************************************************)
(* ToolDiscovery                                                           *)
(***************************************************************************)
NoneInstance == [cls |-> "None", name |-> "", description |-> ""]

\* the instance tool_cls(**kwargs) returns
Instance(cls) == [cls |-> cls, name |-> DeclaredName(cls), description |-> Description(cls)]

\* a probe without the try/except of lines 141-144
create_dummy_instance_uncaught(cls, bodyOk) ==
  IF Construct(cls, DummyArgs(cls), bodyOk) = "ok"
  THEN [exc |-> FALSE, inst |-> Instance(cls)]
  ELSE [exc |-> TRUE, inst |-> NoneInstance]

\* _create_dummy_instance: the instance, or None when the construction raises
\* (lines 141-144); exc says whether an exception leaves the method
create_dummy_instance(cls, bodyOk) ==
  IF Construct(cls, DummyArgs(cls), bodyOk) = "ok"
  THEN [exc |-> FALSE, inst |-> Instance(cls)]
  ELSE [exc |-> FALSE, inst |-> NoneInstance]

\* _create_instance
create_instance(cls, bodyOk) == create_dummy_instance(cls, bodyOk)

\* lines 53-60: the values candidate_tools can take
RECURSIVE ExtendFrom(_, _)
ExtendFrom(cats, i) ==
  IF i > Len(cats) THEN {<<>>}
  ELSE {l \o rest : l \in get_tools_by_category(cats[i]), rest \in ExtendFrom(cats, i + 1)}

CandidateLists(cats) ==
  IF cats # <<>> THEN ExtendFrom(cats, 1) ELSE {all_tools}

\* the task descriptions tried
TaskDescriptions ==
  {" \t ", "Check  flight\tSTATUS Flight"}

\* lines 75-77: set(text.lower().split()) and set(name.lower().split('_'))
WordSet(text) == ToSet(SplitWs(Lower(Chars(text))))
NameWordSet(name) == ToSet(SplitOn(Lower(Chars(name)), "_"))

\* a score that counts the words of the description alone
ScoreDescriptionOnly(task_description, inst) ==
  Cardinality(WordSet(task_description) \cap WordSet(inst.description))

\* lines 75-80
Score(task_description, inst) ==
  LET task_words == WordSet(task_description)
      desc_words == WordSet(inst.description)
      name_words == NameWordSet(inst.name)
  IN Cardinality(task_words \cap desc_words) + Cardinality(task_words \cap name_words)

\* the score of every task description and probe instance of the model,
\* computed once
ScoreTable ==
  [t \in TaskDescriptions, cls \in ToolClasses |-> Score(t, Instance(cls))]

\* lines 64-84: scored_tools before the sort; okAt[i] is what the body of the
\* constructor does for the i-th candidate's probe
RECURSIVE ScoreFrom(_, _, _, _)
ScoreFrom(task_description, cands, okAt, i) ==
  IF i > Len(cands) THEN <<>>
  ELSE LET r == create_dummy_instance(cands[i], okAt[i])
       IN (IF r.exc \/ r.inst = NoneInstance
           THEN <<>>
           ELSE <<[score |-> ScoreTable[task_description, r.inst.cls], cls |-> cands[i]]>>)
          \o ScoreFrom(task_description, cands, okAt, i + 1)

\* an insertion in front of the equals
InsertDescBeforeEquals(sorted, x) ==
  LET k == Cardinality({j \in 1..Len(sorted) : sorted[j].score > x.score})
  IN SubSeq(sorted, 1, k) \o <<x>> \o SubSeq(sorted, k + 1, Len(sorted))

\* where x goes in a list sorted by score descending, behind its equals
InsertDesc(sorted, x) ==
  LET k == Cardinality({j \in 1..Len(sorted) : sorted[j].score >= x.score})
  IN SubSeq(sorted, 1, k) \o <<x>> \o SubSeq(sorted, k + 1, Len(sorted))

\* a sort without reverse=True
RECURSIVE SortAscFrom(_, _, _)
SortAscFrom(list, i, acc) ==
  IF i > Len(list) THEN acc
  ELSE LET k == Cardinality({j \in 1..Len(acc) : acc[j].score <= list[i].score})
       IN SortAscFrom(list, i + 1,
                      SubSeq(acc, 1, k) \o <<list[i]>> \o SubSeq(acc, k + 1, Len(acc)))

SortAsc(list) == SortAscFrom(list, 1, <<>>)

\* line 87: list.sort(reverse=True, key=score) is stable
RECURSIVE SortDescFrom(_, _, _)
SortDescFrom(list, i, acc) ==
  IF i > Len(list) THEN acc ELSE SortDescFrom(list, i + 1, InsertDesc(acc, list[i]))

SortDesc(list) == SortDescFrom(list, 1, <<>>)

\* a slice that keeps one element too many
SliceToInclusive(list, n) ==
  IF n >= 0
  THEN SubSeq(list, 1, IF n + 1 < Len(list) THEN n + 1 ELSE Len(list))
  ELSE SubSeq(list, 1, IF Len(list) + n + 1 > 0 THEN Len(list) + n + 1 ELSE 0)

\* list[:n]
SliceTo(list, n) ==
  IF n >= 0
  THEN SubSeq(list, 1, IF n < Len(list) THEN n ELSE Len(list))
  ELSE SubSeq(list, 1, IF Len(list) + n > 0 THEN Len(list) + n ELSE 0)

\* lines 92-96: the indices of top_tool_classes whose instance is returned,
\* and whether a construction raises out of the loop
RECURSIVE MaterializeFrom(_, _, _)
MaterializeFrom(top, okAt, i) ==
  IF i > Len(top) THEN [raised |-> FALSE, picked |-> <<>>]
  ELSE LET r == create_instance(top[i].cls, okAt[i])
       IN IF r.exc THEN [raised |-> TRUE, picked |-> <<>>]
          ELSE LET rest == MaterializeFrom(top, okAt, i + 1)
               IN [raised |-> rest.raised,
                   picked |-> (IF r.inst # NoneInstance THEN <<i>> ELSE <<>>) \o rest.picked]

\* the constructor outcomes possible for a list of classes
RECURSIVE BodyChoicesFrom(_, _)
BodyChoicesFrom(classes, i) ==
  IF i > Len(classes) THEN {<<>>}
  ELSE {<<b>> \o rest : b \in BodyOutcomes(classes[i]), rest \in BodyChoicesFrom(classes, i + 1)}

BodyChoices(classes) == BodyChoicesFrom(classes, 1)

\* the candidates (by position) that the scoring loop skips
ProbeFailed(cands, okAt) ==
  {i \in 1..Len(cands) :
     LET r == create_dummy_instance(cands[i], okAt[i])
     IN r.exc \/ r.inst = NoneInstance}

\* lines 62-98 for one value of candidate_tools and one outcome per
\* construction; picked lists the positions of top_tool_classes whose
\* instance is returned
SelectReturn(task_description, cats, max_tools, cands, probeOk, finalOk) ==
  LET scored == SortDesc(ScoreFrom(task_description, cands, probeOk, 1))
      top == SliceTo(scored, max_tools)
      m == MaterializeFrom(top, finalOk, 1)
  IN [called |-> TRUE, task |-> task_description, categories |-> cats,
      max_tools |-> max_tools, candidate_tools |-> cands,
      probe_failed |-> ProbeFailed(cands, probeOk),
      scored_tools |-> scored,
      top_tool_classes |-> [k \in 1..Len(top) |-> top[k].cls],
      picked |-> m.picked,
      tools |-> IF m.raised THEN <<>>
                ELSE [k \in 1..Len(m.picked) |-> Instance(top[m.picked[k]].cls)],
      raised |-> m.raised]

\* the classes of top_tool_classes for one outcome per probe
TopClasses(task_description, max_tools, cands, probeOk) ==
  LET top == SliceTo(SortDesc(ScoreFrom(task_description, cands, probeOk, 1)), max_tools)
  IN [k \in 1..Len(top) |-> top[k].cls]

\* lines 62-98 for one value of candidate_tools
SelectFrom(task_description, cats, max_tools, cands) ==
  UNION {{SelectReturn(task_description, cats, max_tools, cands, probeOk, finalOk) :
            finalOk \in BodyChoices(TopClasses(task_description, max_tools, cands, probeOk))}
         : probeOk \in BodyChoices(cands)}

\* get_tools_for_task: every record of a call that the registry, the iteration
\* order of the category sets and the constructors allow
get_tools_for_task(task_description, cats, max_tools) ==
  UNION {SelectFrom(task_description, cats, max_tools, cands) : cands \in CandidateLists(cats)}

\* the arguments tried
CategoryFilters ==
  {<<>>, <<"travel">>, <<"info", "travel">>}

MaxToolsChoices == {0 - 1, 0, 1, 2}

\* a caller runs get_tools_for_task to its return; sel records one call at a
\* time, the next one is recorded once the caller has dropped this one
SelectForTask(task_description, cats, max_tools) ==
  /\ ~sel.called
  /\ overlap \/ \A th \in Threads : reg[th].pc \in {"idle", "returned"}
  /\ sel' \in get_tools_for_task(task_description, cats, max_tools)
  /\ UNCHANGED <<tools, categories, reg, nregs, lastWrite, writers, overlap, mem, rd>>

\* the caller drops the returned list
DropTools ==
  /\ sel.called
  /\ sel' = NoSelect
  /\ UNCHANGED <<tools, categories, reg, nregs, lastWrite, writers, overlap, mem, rd>>

(***************************************************************************)
(* The reads of a thread that runs beside the register_tool calls.  The    *)
(* registry takes no lock: a read is atomic where one C call of the        *)
(* interpreter does it (dict.get, list(dict.values())), and can be         *)
(* overtaken between two turns of the loop of get_tools_by_category.       *)
(***************************************************************************)
\* the names looked up
LookupNames == {"Flight_Status", "missing"}

\* the categories arguments of the concurrent get_tools_for_task calls
GatherFilters == {<<"info">>, <<"info", "travel">>}

\* the task and max_tools of the concurrent get_tools_for_task calls
GatherTasks == {"Check  flight\tSTATUS Flight"}
GatherMaxTools == {2}

\* a register_tool call has written _tools[name] and has not yet added the
\* name to every category it was given
HalfRegistered(name) ==
  \E th \in Threads :
    /\ reg[th].tool_name = name
    /\ reg[th].pc \in {"cat_check", "cat_create", "cat_add"}
    /\ \E j \in reg[th].i..Len(reg[th].cats) :
         name \notin MembersOf(categories, reg[th].cats[j])

\* a lookup in a dict that binds a missing key on access
LookupInserting(name) ==
  /\ overlap
  /\ rd.pc = "idle"
  /\ rd' = [rd EXCEPT !.lookup = name,
                      !.found = get_tool_class(name),
                      !.written = IF name \in DOMAIN lastWrite
                                  THEN lastWrite[name].cls ELSE "None",
                      !.half = HalfRegistered(name)]
  /\ tools' = IF name \in ToolKeys(tools) THEN tools
              ELSE DictSetTool(tools, name, "None")
  /\ UNCHANGED <<categories, reg, nregs, lastWrite, writers, overlap, sel, mem>>

\* get_tool_class(name) from the reading thread
Lookup(name) ==
  /\ overlap
  /\ rd.pc = "idle"
  /\ rd' = [rd EXCEPT !.lookup = name,
                      !.found = get_tool_class(name),
                      !.written = IF name \in DOMAIN lastWrite
                                  THEN lastWrite[name].cls ELSE "None",
                      !.half = HalfRegistered(name)]
  /\ UNCHANGED <<tools, categories, reg, nregs, lastWrite, writers, overlap, sel, mem>>

\* tool_registry.py line 125 and the start of the loop of line 126 for the
\* k-th category: the set bound to the label, or a new empty one, and an
\* iterator that remembers its size
OpenIter(r, k) ==
  [r EXCEPT !.pc = "iter", !.k = k,
            !.live = r.cats[k] \in CatKeys(categories),
            !.grown = FALSE,
            !.names = MembersOf(categories, r.cats[k]),
            !.left = MembersOf(categories, r.cats[k]),
            !.out = <<>>]

\* tool_discovery.py lines 55-57: get_tools_for_task with a categories
\* argument calls get_tools_by_category for the first category
GatherStart(cats) ==
  /\ overlap
  /\ rd.pc = "idle"
  /\ rd' = OpenIter([NoRead EXCEPT !.cats = cats], 1)
  /\ UNCHANGED <<tools, categories, reg, nregs, lastWrite, writers, overlap, sel, mem>>

\* the set the iterator walks has another size than when the walk began
SetChangedSize ==
  IF rd.live THEN MembersOf(categories, rd.cats[rd.k]) # rd.names ELSE rd.grown

\* one turn of the loop of tool_registry.py line 126: the iterator raises
\* RuntimeError if its set changed size, else yields a name, whose class is
\* kept if the name is in _tools; at the end of the set the list goes to
\* candidate_tools (tool_discovery.py line 57) and the next category is read
GatherNext ==
  /\ rd.pc = "iter"
  /\ IF SetChangedSize
     THEN rd' = [rd EXCEPT !.pc = "raised"]
     ELSE IF rd.left = {}
          THEN LET r == [rd EXCEPT !.cands = rd.cands \o rd.out]
               IN rd' = IF rd.k = Len(rd.cats)
                        THEN [r EXCEPT !.pc = "gathered"]
                        ELSE OpenIter(r, rd.k + 1)
          ELSE \E n \in rd.left :
                 rd' = [rd EXCEPT !.left = rd.left \ {n},
                                  !.out = IF n \in ToolKeys(tools)
                                          THEN Append(rd.out, ToolAt(tools, n))
                                          ELSE rd.out]
  /\ UNCHANGED <<tools, categories, reg, nregs, lastWrite, writers, overlap, sel, mem>>

\* tool_discovery.py lines 62-98 on the candidates gathered: they read the
\* registry no more
GatherFinish(task_description, max_tools) ==
  /\ rd.pc = "gathered"
  /\ ~sel.called
  /\ sel' \in SelectFrom(task_description, rd.cats, max_tools, rd.cands)
  /\ rd' = NoRead
  /\ UNCHANGED <<tools, categories, reg, nregs, lastWrite, writers, overlap, mem>>

(***************************************************************************)
(* PreloadMemoryTool.process_llm_request                                   *)
(***************************************************************************)
\* types.Part: text is "" when the part has none, and so are the mime type
\* of its inline_data and the name of its function_call
TextPart(text) == [text |-> text, mime_type |-> "", function_call |-> ""]
InlinePart(mime_type) == [text |-> "", mime_type |-> mime_type, function_call |-> ""]
CallPart(name) == [text |-> "", mime_type |-> "", function_call |-> name]

\* all sequences of at most n elements of S
SeqsUpTo(S, n) == UNION {[1..k -> S] : k \in 0..n}

\* the parts of the user content tried
UserParts ==
  {TextPart("hi"), TextPart(" "), TextPart(""), InlinePart("image/png"), CallPart("some_tool")}

\* the memories tried: event.content is None (present = FALSE) or has parts
EventParts ==
  {TextPart("hi"), TextPart(""), InlinePart("image/png"), CallPart("some_tool")}

EventContents ==
  {[present |-> FALSE, parts |-> <<>>]}
  \cup {[present |-> TRUE, parts |-> ps] : ps \in SeqsUpTo(EventParts, MaxParts)}

Events ==
  [author : {"user", "model"}, timestamp : {0}, content : EventContents]

\* response.memories: no memory, or one memory with its events
MemoryResponses ==
  {<<>>} \cup {<<[events |-> es]>> : es \in SeqsUpTo(Events, MaxEvents)}

\* datetime.fromtimestamp(ts).isoformat(), for the one timestamp tried, in UTC
IsoFormat(ts) == Chars("1970-01-01T00:00:00")

\* a query built from the text parts alone
RECURSIVE QueryFromTextOnly(_, _)
QueryFromTextOnly(parts, i) ==
  IF i > Len(parts) THEN <<>>
  ELSE (IF parts[i].text # "" THEN Chars(parts[i].text) \o Chars(" ") ELSE <<>>)
       \o QueryFromTextOnly(parts, i + 1)

\* lines 63-70: the query before the strip
RECURSIVE QueryFrom(_, _)
QueryFrom(parts, i) ==
  IF i > Len(parts) THEN <<>>
  ELSE (IF parts[i].text # ""
        THEN Chars(parts[i].text) \o Chars(" ")
        ELSE IF parts[i].mime_type # ""
             THEN Chars("[User shared ") \o Chars(parts[i].mime_type) \o Chars(" content] ")
             ELSE <<>>)
       \o QueryFrom(parts, i + 1)

\* lines 90-99: event_content
RECURSIVE EventContentFrom(_, _)
EventContentFrom(parts, i) ==
  IF i > Len(parts) THEN <<>>
  ELSE (IF parts[i].text # ""
        THEN <<Chars(parts[i].text)>>
        ELSE IF parts[i].mime_type # ""
             THEN <<Chars("[") \o Chars(parts[i].mime_type) \o Chars(" content]")>>
             ELSE IF parts[i].function_call # ""
                  THEN <<Chars("[function call: ") \o Chars(parts[i].function_call) \o Chars("]")>>
                  ELSE <<>>)
       \o EventContentFrom(parts, i + 1)

\* lines 86-103: what one event adds to memory_text
EventText(event) ==
  IF ~event.content.present \/ event.content.parts = <<>>
  THEN <<>>
  ELSE LET formatted_content == Join(Chars(" "), EventContentFrom(event.content.parts, 1))
       IN IF formatted_content # <<>>
          THEN Chars(event.author) \o Chars(": ") \o formatted_content \o Chars("\n")
          ELSE <<>>

RECURSIVE EventsTextFrom(_, _)
EventsTextFrom(events, i) ==
  IF i > Len(events) THEN <<>>
  ELSE EventText(events[i]) \o EventsTextFrom(events, i + 1)

\* lines 81-103: memory_text; memory.events[0] raises IndexError when the
\* memory has no event
RECURSIVE MemoryTextFrom(_, _)
MemoryTextFrom(memories, i) ==
  IF i > Len(memories) THEN [raised |-> FALSE, text |-> <<>>]
  ELSE IF memories[i].events = <<>> THEN [raised |-> TRUE, text |-> <<>>]
  ELSE LET rest == MemoryTextFrom(memories, i + 1)
       IN [raised |-> rest.raised,
           text |-> Chars("Time: ") \o IsoFormat(memories[i].events[1].timestamp) \o Chars("\n")
                    \o EventsTextFrom(memories[i].events, 1) \o rest.text]

\* process_llm_request: the queries passed to search_memory, the memory_text
\* of each instruction appended to the request (between the fixed opening
\* and closing lines of lines 105-110), and whether the call raises
process_llm_request(parts, memories) ==
  LET query == Strip(QueryFrom(parts, 1))
      m == MemoryTextFrom(memories, 1)
  IN IF parts = <<>> \/ query = <<>>
     THEN [called |-> TRUE, parts |-> parts, memories |-> <<>>, queries |-> <<>>,
           instructions |-> <<>>, raised |-> FALSE]
     ELSE IF memories = <<>>
     THEN [called |-> TRUE, parts |-> parts, memories |-> memories, queries |-> <<query>>,
           instructions |-> <<>>, raised |-> FALSE]
     ELSE IF m.raised
     THEN [called |-> TRUE, parts |-> parts, memories |-> memories, queries |-> <<query>>,
           instructions |-> <<>>, raised |-> TRUE]
     ELSE [called |-> TRUE, parts |-> parts, memories |-> memories, queries |-> <<query>>,
           instructions |-> <<m.text>>, raised |-> FALSE]

NoPreload ==
  [called |-> FALSE, parts |-> <<>>, memories |-> <<>>, queries |-> <<>>,
   instructions |-> <<>>, raised |-> FALSE]

\* the framework runs the tool on one user turn; memories is what
\* search_memory returns if it is called
ProcessLlmRequest(parts, memories) ==
  /\ ~mem.called
  /\ mem' = process_llm_request(parts, memories)
  /\ UNCHANGED <<tools, categories, reg, nregs, lastWrite, writers, overlap, sel, rd>>

(***************************************************************************)
(* Specification                                                           *)
(***************************************************************************)
Init ==
  /\ tools = <<>>
  /\ categories = <<>>
  /\ reg = [th \in Threads |-> NoCall]
  /\ nregs = 0
  /\ lastWrite = <<>>
  /\ writers = {1}
  /\ overlap = FALSE
  /\ sel = NoSelect
  /\ mem = NoPreload
  /\ rd = NoRead

Next ==
  \/ \E th \in writers, cls \in ToolClasses, cats \in CategoryLists, bodyOk \in BOOLEAN :
       /\ bodyOk \in BodyOutcomes(cls)
       /\ RegisterProbe(th, cls, cats, bodyOk)
  \/ \E th \in writers : RegisterStore(th)
  \/ \E th \in writers : RegisterCatCheck(th)
  \/ \E th \in writers : RegisterCatCreate(th)
  \/ \E th \in writers : RegisterCatAdd(th)
  \/ \E t \in TaskDescriptions, cats \in CategoryFilters, n \in MaxToolsChoices :
       SelectForTask(t, cats, n)
  \/ DropTools

Spec == Init /\ [][Next]_vars

\* two threads register one class each, which can resolve to one name, while
\* a third looks names up and selects tools by category
ConcClasses == {"FlightTool", "FlightToolV2"}

InitConc ==
  /\ tools = <<>>
  /\ categories = <<>>
  /\ reg = [th \in Threads |-> NoCall]
  /\ nregs = 0
  /\ lastWrite = <<>>
  /\ writers = Threads
  /\ overlap = TRUE
  /\ sel = NoSelect
  /\ mem = NoPreload
  /\ rd = NoRead

NextConc ==
  \/ \E th \in writers, cls \in ConcClasses, cats \in CategoryLists, bodyOk \in BOOLEAN :
       /\ reg[th].pc = "idle"
       /\ bodyOk \in BodyOutcomes(cls)
       /\ RegisterProbe(th, cls, cats, bodyOk)
  \/ \E th \in writers : RegisterStore(th)
  \/ \E th \in writers : RegisterCatCheck(th)
  \/ \E th \in writers : RegisterCatCreate(th)
  \/ \E th \in writers : RegisterCatAdd(th)
  \/ \E name \in LookupNames : Lookup(name)
  \/ \E cats \in GatherFilters : GatherStart(cats)
  \/ GatherNext
  \/ \E t \in GatherTasks, n \in GatherMaxTools : GatherFinish(t, n)
  \/ \E t \in GatherTasks, n \in GatherMaxTools :
       rd.pc = "idle" /\ SelectForTask(t, <<>>, n)
  \/ DropTools

SpecConc == InitConc /\ [][NextConc]_vars

\* the memory preload on its own: one user turn per behaviour
NextMem ==
  /\ ~mem.called
  /\ \E parts \in SeqsUpTo(UserParts, MaxParts), memories \in MemoryResponses :
       ProcessLlmRequest(parts, memories)

SpecMem == Init /\ [][NextMem]_vars

\* one user turn against a memory service that returns no memory or one
\* memory of at most one event
NextTurn ==
  /\ ~mem.called
  /\ \E parts \in SeqsUpTo(UserParts, MaxParts),
        memories \in {<<>>} \cup {<<[events |-> es]>> : es \in SeqsUpTo(Events, 1)} :
       ProcessLlmRequest(parts, memories)

SpecTurn == Init /\ [][NextTurn]_vars

(***************************************************************************)
(* Properties                                                              *)
(***************************************************************************)
Count(seq, x) == Cardinality({i \in 1..Len(seq) : seq[i] = x})

\* every construction of the class with the synthesized arguments succeeds
AlwaysConstructs(cls) ==
  \A b \in BodyOutcomes(cls) : Construct(cls, DummyArgs(cls), b) = "ok"

\* some construction of the class with the synthesized arguments succeeds
CanConstruct(cls) ==
  \E b \in BodyOutcomes(cls) : Construct(cls, DummyArgs(cls), b) = "ok"

\* an empty or whitespace-only text
IsBlank(text) == Strip(Chars(text)) = <<>>

\* C1: the registry holds exactly one entry per resolved name, and a lookup
\* of a name gives the class of the most recent registration under it.
C1_OneEntryPerName ==
  /\ \A i, j \in 1..Len(tools) : tools[i].name = tools[j].name => i = j
  /\ ToolKeys(tools) = DOMAIN lastWrite
  /\ Len(all_tools) = Cardinality(DOMAIN lastWrite)
  /\ \A n \in DOMAIN lastWrite : get_tool_class(n) = lastWrite[n].cls

\* a second class was registered under the name of a first one
C1_Witness ==
  \E n \in DOMAIN lastWrite :
    /\ lastWrite[n].replaced \notin {"None", lastWrite[n].cls}
    /\ get_tool_class(n) = lastWrite[n].cls
    /\ lastWrite[n].replaced \notin Range(all_tools)
    /\ Count([k \in 1..Len(tools) |-> tools[k].name], n) = 1

\* C2: in every state, those inside a register_tool call included, every
\* member of every category set is a key of _tools, so its lookup succeeds.
C2_CategoryClosure ==
  \A k \in 1..Len(categories) :
    \A n \in categories[k].members :
      n \in ToolKeys(tools) /\ get_tool_class(n) # "None"

\* a call has written _tools and its first category, not yet its second
C2_Witness ==
  \E th \in Threads :
    /\ reg[th].pc = "cat_add"
    /\ reg[th].i = 2
    /\ reg[th].tool_name \in MembersOf(categories, reg[th].cats[1])
    /\ reg[th].tool_name \notin MembersOf(categories, reg[th].cats[2])
    /\ C2_CategoryClosure

\* C3 as claimed: a call with an empty or whitespace-only task description
\* returns the empty list.
C3_BlankTaskReturnsNothing ==
  (sel.called /\ IsBlank(sel.task)) => (sel.tools = <<>> /\ ~sel.raised)

\* C4 as claimed: with a category filter, a class that is in several of the
\* requested categories is one candidate and is returned at most once.
C4_OneCandidatePerClass ==
  (/\ sel.called
   /\ sel.categories # <<>>
   /\ \A i, j \in 1..Len(tools) : tools[i].cls = tools[j].cls => i = j)
  => \A cls \in ToolClasses :
       /\ Count(sel.candidate_tools, cls) <= 1
       /\ Count([k \in 1..Len(sel.tools) |-> sel.tools[k].cls], cls) <= 1

\* C5 as claimed: the returned list is never longer than max_tools, for
\* every integer max_tools.
C5_LengthAtMostMax ==
  sel.called => Len(sel.tools) <= sel.max_tools

\* C5 amended: for max_tools >= 0 the returned list is never longer than
\* max_tools; for max_tools < 0 it is never longer than the number of
\* candidates less |max_tools|; and for max_tools >= 0, when every candidate
\* always constructs and there are at least max_tools candidates, exactly
\* max_tools instances are returned.
C5_Truncation ==
  sel.called =>
    /\ sel.max_tools >= 0 => Len(sel.tools) <= sel.max_tools
    /\ sel.max_tools < 0 =>
         Len(sel.tools) <= (IF Len(sel.candidate_tools) + sel.max_tools > 0
                            THEN Len(sel.candidate_tools) + sel.max_tools ELSE 0)
    /\ (/\ sel.max_tools >= 0
        /\ \A i \in 1..Len(sel.candidate_tools) : AlwaysConstructs(sel.candidate_tools[i])
        /\ Len(sel.candidate_tools) >= sel.max_tools)
       => Len(sel.tools) = sel.max_tools

\* more constructible candidates than max_tools, and max_tools of them returned
C5_Witness ==
  /\ sel.called
  /\ sel.max_tools = 1
  /\ Len(sel.candidate_tools) >= 2
  /\ \A i \in 1..Len(sel.candidate_tools) : AlwaysConstructs(sel.candidate_tools[i])
  /\ Len(sel.tools) = 1

\* C6: the returned instances are in descending order of score, and no
\* scored candidate cut off by the truncation scores higher than a returned one.
C6_RankedByScore ==
  sel.called =>
    /\ \A a, b \in 1..Len(sel.picked) :
         a < b => /\ sel.picked[a] < sel.picked[b]
                  /\ sel.scored_tools[sel.picked[a]].score >= sel.scored_tools[sel.picked[b]].score
    /\ \A k \in 1..Len(sel.picked) :
         /\ sel.picked[k] \in 1..Len(sel.top_tool_classes)
         /\ sel.tools[k].cls = sel.scored_tools[sel.picked[k]].cls
    /\ \A j \in 1..Len(sel.scored_tools) :
         j > Len(sel.top_tool_classes) =>
           \A k \in 1..Len(sel.picked) :
             sel.scored_tools[j].score <= sel.scored_tools[sel.picked[k]].score

\* a higher-scoring candidate that came later in candidate_tools is returned first
C6_Witness ==
  /\ sel.called
  /\ Len(sel.tools) = 2
  /\ sel.scored_tools[sel.picked[1]].score > sel.scored_tools[sel.picked[2]].score
  /\ sel.candidate_tools[1] = sel.tools[2].cls
  /\ sel.candidate_tools[1] # sel.tools[1].cls

C8_OnlyRequestedCategories ==
  (sel.called /\ sel.categories # <<>>) =>
    /\ \A k \in 1..Len(sel.tools) :
         \E c \in Range(sel.categories) :
           \E n \in MembersOf(categories, c) : get_tool_class(n) = sel.tools[k].cls
    /\ (\A c \in Range(sel.categories) : c \notin Range(all_categories)) => sel.tools = <<>>

\* one tool in "info" only, which scores higher, and one in "travel":
\* the filter "travel" returns exactly the second
C8_Witness ==
  /\ sel.called
  /\ sel.categories = <<"travel">>
  /\ sel.max_tools = 2
  /\ "Flight_Status" \in MembersOf(categories, "info") \ MembersOf(categories, "travel")
  /\ get_tool_class("Flight_Status") = "FlightTool"
  /\ MembersOf(categories, "travel") = {"dummy_agent"}
  /\ ScoreTable[sel.task, "FlightTool"] > ScoreTable[sel.task, "AgentTool"]
  /\ sel.tools = <<Instance("AgentTool")>>

\* the scored candidates without those whose final construction failed
Survivors ==
  LET failed == (1..Len(sel.top_tool_classes)) \ Range(sel.picked)
      F[j \in 0..Len(sel.scored_tools)] ==
        IF j = 0 THEN <<>>
        ELSE IF j \in failed THEN F[j - 1] ELSE Append(F[j - 1], sel.scored_tools[j])
  IN F[Len(sel.scored_tools)]

\* C9 as claimed: the call never raises, and a candidate whose construction
\* fails is left out without a change to which other candidates are returned:
\* the result is that of the same call without the failed candidates.
C9_FailuresLeaveOthersInPlace ==
  sel.called =>
    /\ ~sel.raised
    /\ [k \in 1..Len(sel.tools) |-> sel.tools[k].cls]
         = [k \in 1..Len(SliceTo(Survivors, sel.max_tools)) |->
              SliceTo(Survivors, sel.max_tools)[k].cls]

\* C9 amended: the call never raises; a candidate whose probe fails is left
\* out of scored_tools and the others are scored and ranked as without it; a
\* candidate whose final construction fails is left out of the result but
\* keeps its place among the max_tools ranked first; with no candidate, or
\* with every probe failing, the result is empty.
C9_SilentExclusion ==
  sel.called =>
    /\ ~sel.raised
    /\ \A i \in 1..Len(sel.candidate_tools) :
         /\ i \in sel.probe_failed => ~AlwaysConstructs(sel.candidate_tools[i])
         /\ ~CanConstruct(sel.candidate_tools[i]) => i \in sel.probe_failed
    /\ \A cls \in ToolClasses :
         Count([k \in 1..Len(sel.scored_tools) |-> sel.scored_tools[k].cls], cls)
           = Cardinality({i \in 1..Len(sel.candidate_tools) :
                            i \notin sel.probe_failed /\ sel.candidate_tools[i] = cls})
    /\ \A k \in 1..Len(sel.scored_tools) :
         /\ sel.scored_tools[k].score = ScoreTable[sel.task, sel.scored_tools[k].cls]
         /\ k > 1 => sel.scored_tools[k - 1].score >= sel.scored_tools[k].score
    /\ \A k \in 1..Len(sel.top_tool_classes) :
         /\ k <= Len(sel.scored_tools)
         /\ sel.top_tool_classes[k] = sel.scored_tools[k].cls
         /\ k \notin Range(sel.picked) => ~AlwaysConstructs(sel.top_tool_classes[k])
    /\ \A k \in 1..Len(sel.picked) :
         /\ sel.picked[k] \in 1..Len(sel.top_tool_classes)
         /\ k > 1 => sel.picked[k - 1] < sel.picked[k]
         /\ sel.tools[k] = Instance(sel.top_tool_classes[sel.picked[k]])
    /\ Len(sel.tools) = Len(sel.picked)
    /\ Cardinality(sel.probe_failed) = Len(sel.candidate_tools) => sel.tools = <<>>

\* one probe fails, one final construction fails, and another candidate is returned
C9_Witness ==
  /\ sel.called
  /\ sel.probe_failed # {}
  /\ Len(sel.picked) < Len(sel.top_tool_classes)
  /\ sel.tools # <<>>
  /\ ~sel.raised

\* the line C10 expects of an event: its author and its first text part
ClaimedEventText(event) ==
  LET ps == event.content.parts
      texts == {i \in 1..Len(ps) : ps[i].text # ""}
  IN IF ~event.content.present \/ texts = {}
     THEN <<>>
     ELSE Chars(event.author) \o Chars(": ")
          \o Chars(ps[CHOOSE i \in texts : \A j \in texts : i <= j].text) \o Chars("\n")

RECURSIVE ClaimedEventsTextFrom(_, _)
ClaimedEventsTextFrom(events, i) ==
  IF i > Len(events) THEN <<>>
  ELSE ClaimedEventText(events[i]) \o ClaimedEventsTextFrom(events, i + 1)

\* C10 as claimed: each event is rendered as one line of its author and its
\* first text part only; later text parts and non-text parts add nothing,
\* and an event without a text part or without content gives no line.
C10_FirstTextPartOnly ==
  (mem.called /\ mem.instructions # <<>>) =>
    mem.instructions[1] =
      Chars("Time: ") \o IsoFormat(mem.memories[1].events[1].timestamp) \o Chars("\n")
      \o ClaimedEventsTextFrom(mem.memories[1].events, 1)

\* a part that puts something other than white space into the query: a text
\* that is not blank, or inline data
InQuery(part) == ~IsBlank(part.text) \/ (part.text = "" /\ part.mime_type # "")

\* C11 as claimed: search_memory is called at most once, and a turn without
\* a part that has text (no parts, empty text, only non-text parts such as
\* inline data) gives no search and no instruction.
C11_NoSearchWithoutText ==
  mem.called =>
    /\ Len(mem.queries) <= 1
    /\ (\A i \in 1..Len(mem.parts) : mem.parts[i].text = "") =>
         (mem.queries = <<>> /\ mem.instructions = <<>>)

\* C11 amended: search_memory is called at most once per turn; it is called
\* exactly when some part has a text that is not blank or has inline data,
\* and a turn of inline data alone is searched under the placeholder
\* "[User shared <mime> content]"; without a search no instruction is
\* appended.
C11_SearchOnlyWithQuery ==
  mem.called =>
    /\ Len(mem.queries) <= 1
    /\ mem.queries # <<>> <=> \E i \in 1..Len(mem.parts) : InQuery(mem.parts[i])
    /\ mem.queries = <<>> => mem.instructions = <<>>
    /\ Len(mem.instructions) <= 1
    /\ (Len(mem.parts) = 1 /\ mem.parts[1].text = "" /\ mem.parts[1].mime_type # "") =>
         mem.queries = <<Chars("[User shared ") \o Chars(mem.parts[1].mime_type)
                          \o Chars(" content]")>>

\* a turn of inline data alone was searched and an instruction was appended
C11_Witness ==
  /\ mem.called
  /\ mem.parts = <<InlinePart("image/png")>>
  /\ Len(mem.queries) = 1
  /\ Len(mem.instructions) = 1

\* the words of s: its longest stretches without white space
WordsOf(s) ==
  {SubSeq(s, p[1], p[2]) :
     p \in {q \in (1..Len(s)) \X (1..Len(s)) :
              /\ q[1] <= q[2]
              /\ \A i \in q[1]..q[2] : ~IsSpace(s[i])
              /\ q[1] = 1 \/ IsSpace(s[q[1] - 1])
              /\ q[2] = Len(s) \/ IsSpace(s[q[2] + 1])}}

\* the pieces of s between two neighbouring occurrences of sep, the start
\* and the end of s counting as occurrences
PiecesOf(s, sep) ==
  LET cuts == {0, Len(s) + 1} \cup {i \in 1..Len(s) : s[i] = sep}
  IN {SubSeq(s, p[1] + 1, p[2] - 1) :
        p \in {q \in cuts \X cuts :
                 q[1] < q[2] /\ \A c \in cuts : ~(q[1] < c /\ c < q[2])}}

\* |taskWords \cap descriptionWords| + |taskWords \cap nameWords| with the
\* name lower-cased before it is cut at its underscores
WordOverlap ==
  [t \in TaskDescriptions, cls \in ToolClasses |->
     LET taskWords == WordsOf(Lower(Chars(t)))
         descriptionWords == WordsOf(Lower(Chars(Description(cls))))
         nameWords == PiecesOf(Lower(Chars(DeclaredName(cls))), "_")
     IN Cardinality(taskWords \cap descriptionWords) + Cardinality(taskWords \cap nameWords)]

\* the same with the name cut at its underscores as it is declared
WordOverlapNameAsDeclared ==
  [t \in TaskDescriptions, cls \in ToolClasses |->
     LET taskWords == WordsOf(Lower(Chars(t)))
         descriptionWords == WordsOf(Lower(Chars(Description(cls))))
         nameWords == PiecesOf(Chars(DeclaredName(cls)), "_")
     IN Cardinality(taskWords \cap descriptionWords) + Cardinality(taskWords \cap nameWords)]

\* C12 as claimed: the score of a probed candidate is the number of task
\* words among the lower-cased words of its description plus the number of
\* task words among the underscore-separated words of its declared name.
C12_NameWordsAsDeclared ==
  sel.called =>
    \A k \in 1..Len(sel.scored_tools) :
      sel.scored_tools[k].score = WordOverlapNameAsDeclared[sel.task, sel.scored_tools[k].cls]

\* C12 amended: the score of a probed candidate is the number of task words
\* among the lower-cased words of its description plus the number of task
\* words among the underscore-separated words of its lower-cased name; it is
\* a natural number.
C12_ScoreIsWordOverlap ==
  sel.called =>
    \A k \in 1..Len(sel.scored_tools) :
      /\ sel.scored_tools[k].score = WordOverlap[sel.task, sel.scored_tools[k].cls]
      /\ sel.scored_tools[k].score \in Nat

\* the task says "flight" twice and "status" once, both words are in the
\* description and in the name of FlightTool, and FlightTool scores 4
C12_Witness ==
  /\ sel.called
  /\ sel.task = "Check  flight\tSTATUS Flight"
  /\ \E k \in 1..Len(sel.scored_tools) :
       sel.scored_tools[k] = [score |-> 4, cls |-> "FlightTool"]

\* some registration of class c1 that is still in _tools was written no
\* later than some such registration of class c2
RegisteredNoLater(c1, c2) ==
  \E n1, n2 \in DOMAIN lastWrite :
    /\ lastWrite[n1].cls = c1
    /\ lastWrite[n2].cls = c2
    /\ lastWrite[n1].at <= lastWrite[n2].at

\* the classes of the candidates that were probed and score v, in the order
\* of candidate_tools
ProbedWithScore(v) ==
  LET numbered == [i \in 1..Len(sel.candidate_tools) |->
                     [cls |-> sel.candidate_tools[i], i |-> i]]
      Test(x) == x.i \notin sel.probe_failed /\ ScoreTable[sel.task, x.cls] = v
      kept == SelectSeq(numbered, Test)
  IN [k \in 1..Len(kept) |-> kept[k].cls]

\* the classes of scored_tools that score v, in the order of scored_tools
ScoredWithScore(v) ==
  LET Test(x) == x.score = v
      kept == SelectSeq(sel.scored_tools, Test)
  IN [k \in 1..Len(kept) |-> kept[k].cls]

CategoryIndexGrows ==
  /\ \A c \in CatKeys(categories) :
       /\ c \in CatKeys(categories')
       /\ MembersOf(categories, c) \subseteq MembersOf(categories', c)
  /\ Range(all_categories) \subseteq Range(all_categories')
  /\ \A th \in Threads :
       reg[th].pc = "cat_add" /\ reg'[th].pc # "cat_add" =>
         /\ reg[th].cats[reg[th].i] \in Range(all_categories')
         /\ reg[th].tool_name \in MembersOf(categories', reg[th].cats[reg[th].i])
  /\ (tools' # tools \/ categories' # categories) =>
       \A c \in CatKeys(categories') :
         \A n \in MembersOf(categories', c) \cap ToolKeys(tools') :
           \A listed \in get_tools_by_category(c)' :
             get_tool_class(n)' \in Range(listed)

\* C14: the category index only grows: a name added to a category stays a
\* member, all_categories keeps every label ever used, and a name that is
\* registered again with other categories stays in its old ones, which then
\* return the newly registered class.
C14_CategoryIndexOnlyGrows == [][CategoryIndexGrows]_vars

\* 'Flight_Status' was registered as FlightTool in 'info' and 'travel' and
\* again as FlightToolV2 in 'info' alone: 'travel' returns FlightToolV2
C14_Witness ==
  /\ reg[1].pc = "returned"
  /\ reg[1].cls = "FlightToolV2"
  /\ reg[1].tool_name = "Flight_Status"
  /\ reg[1].cats = <<"info">>
  /\ lastWrite["Flight_Status"].replaced = "FlightTool"
  /\ "Flight_Status" \in MembersOf(categories, "travel")
  /\ get_tools_by_category("travel") = {<<"FlightToolV2">>}
  /\ Range(all_categories) = {"info", "travel"}

\* both register_tool calls of the run resolved to one name
SameName ==
  /\ \A th \in Threads : reg[th].pc # "idle"
  /\ reg[1].tool_name = reg[2].tool_name

\* C15: with two concurrent register_tool calls that resolve to one name,
\* every get_tool_class of that name returns None (before the first write
\* only) or the class written last, the class stored in the end is the one
\* written last, and no concurrent reader raises or reads the name of a
\* registration that is written in part.
C15_LastWriteWinsAtomic ==
  SameName =>
    /\ rd.lookup = reg[1].tool_name => rd.found = rd.written
    /\ \A n \in DOMAIN lastWrite : get_tool_class(n) = lastWrite[n].cls
    /\ rd.pc # "raised"
    /\ rd.lookup = reg[1].tool_name /\ rd.found # "None" => ~rd.half

\* a step of a read: no register_tool call moves
ReadStep == reg' = reg

\* a step that leaves _tools and _categories as they are, finds no class
\* for a name that is not registered, and no member and no entry for a
\* category that is not in the index
ReadLeavesRegistry ==
  /\ tools' = tools
  /\ categories' = categories
  /\ all_tools' = all_tools
  /\ all_categories' = all_categories
  /\ (rd'.lookup # "" /\ rd'.lookup \notin ToolKeys(tools)) => rd'.found = "None"
  /\ (rd'.pc = "iter" /\ rd'.cats[rd'.k] \notin CatKeys(categories)) =>
       /\ rd'.names = {}
       /\ rd'.cats[rd'.k] \notin Range(all_categories')

\* C16: get_tool_class, get_tools_by_category, all_tools, all_categories and
\* get_tools_for_task leave _tools and _categories unchanged; a name that is
\* not registered gives None and a category that is not in the index gives
\* no class and is not created.
C16_ReadsLeaveRegistry == [][ReadStep => ReadLeavesRegistry]_vars

\* after a registration under 'info', a selection by 'info' and 'travel'
\* returned and 'missing' was looked up: 'travel' is no category and
\* 'missing' no name
C16_Witness ==
  /\ rd.pc = "idle"
  /\ rd.lookup = "missing"
  /\ rd.found = "None"
  /\ sel.called
  /\ sel.categories = <<"info", "travel">>
  /\ Len(sel.tools) > 0
  /\ Range(all_categories) = {"info"}
  /\ "missing" \notin ToolKeys(tools)

=============================================================================
